---- MODULE Spec2Model ----
(***************************************************************************)
(* Model of package keylock (keylock.go): a KeyLock holds a sync.Map from  *)
(* key to *spinLock, an int32 count of held locks and the backoff ceiling  *)
(* maxSpins.  Every atomic operation of the code (LoadOrStore, Load,       *)
(* Delete, CompareAndSwapInt32, StoreInt32, AddInt32, one Gosched) is one  *)
(* step of the calling goroutine, so all interleavings of goroutines are   *)
(* explored.                                                               *)
(***************************************************************************)
EXTENDS Integers, FiniteSets, Sequences, TLC

\* ---------------------------------------------------------------- bounds
NumThreads == 2        \* goroutines using the KeyLock
NumKeys == 2           \* distinct key strings in use
MaxOps == 3            \* calls made in all (the Unlock of a held key is not counted)
MaxCells == 2          \* spinLock objects stored in the map for one key
MaxSpinsArg == 3       \* largest argument given to WithMaxSpins

\* ------------------------------------------------------ program constants
defaultMaxSpins == 16

Threads == 1..NumThreads
Keys == 1..NumKeys
NoKey == 0
\* A spinLock object is named by the key it was stored for and its rank among
\* the objects stored for that key: <<k, 1>> is the first cell of key k.
Cells == Keys \X (1..MaxCells)
NoCell == <<NoKey, 0>>  \* no entry in the map / no cell in hand
SpinArgs == (-1)..MaxSpinsArg

VARIABLES
    locks,      \* kl.locks: key -> cell currently stored, or NoCell
    cells,      \* the int32 word of every spinLock object: 0 or 1
    nalloc,     \* per key, the number of spinLock objects LoadOrStore stored
    count,      \* kl.count (int32; |count| <= NumThreads * MaxOps here, no wrap)
    maxSpins,   \* kl.maxSpins
    pc,         \* position of each goroutine
    key,        \* the key argument of the goroutine's call in progress
    lock,       \* local variable lock (Lock/TryLock/Unlock), value (Cleanup)
    backoff,    \* local variable backoff of Lock
    spins,      \* Gosched calls made by the last "for range backoff" of Lock
    held,       \* keys the goroutine has acquired and not yet passed to Unlock
    ops,        \* calls made so far, by all goroutines together
    found,      \* value Unlock's StoreInt32 overwrote (-1 when not in Unlock)
    visited,    \* keys the goroutine's Range call has already visited
    seen,       \* mappings each key had at some point during the Range call
    pinned      \* history: keys whose entry has been one and the same Locked
                \* cell ever since the goroutine's last Cleanup call started

vars == <<locks, cells, nalloc, count, maxSpins, pc, key, lock,
          backoff, spins, held, ops, found, visited, seen, pinned>>

shared == <<locks, cells, nalloc, count, maxSpins>>

\* Size(): atomic.LoadInt32(&kl.count)
Size == count

\* New(): empty map, count 0, maxSpins = defaultMaxSpins; no goroutine started
Init ==
    /\ locks = [k \in Keys |-> NoCell]
    /\ cells = [c \in Cells |-> 0]
    /\ nalloc = [k \in Keys |-> 0]
    /\ count = 0
    /\ maxSpins = defaultMaxSpins
    /\ pc = [t \in Threads |-> "idle"]
    /\ key = [t \in Threads |-> NoKey]
    /\ lock = [t \in Threads |-> NoCell]
    /\ backoff = [t \in Threads |-> 0]
    /\ spins = [t \in Threads |-> 0]
    /\ held = [t \in Threads |-> {}]
    /\ ops = 0
    /\ found = [t \in Threads |-> -1]
    /\ visited = [t \in Threads |-> {}]
    /\ seen = [t \in Threads |-> [k \in Keys |-> {}]]
    /\ pinned = [t \in Threads |-> {}]

\* The KeyLock has not been used yet (WithMaxSpins is chained to New()).
Fresh == /\ \A t \in Threads : pc[t] = "idle"
         /\ ops = 0
         /\ \A k \in Keys : nalloc[k] = 0

\* Program positions inside Cleanup's Range call
RangePcs == {"Range", "CleanupLoad", "CleanupDelete"}

\* The history variable pinned follows every step: when a goroutine's Cleanup
\* call starts it becomes the set of keys whose entry is a Locked cell; a key
\* leaves it as soon as its entry changes or its cell is no longer Locked,
\* during the call or after it.  No action reads it.
Track ==
    pinned' = [t \in Threads |->
        IF pc[t] \notin RangePcs /\ pc'[t] \in RangePcs
        THEN {k \in Keys : locks'[k] # NoCell /\ cells'[locks'[k]] = 1}
        ELSE {k \in pinned[t] : locks'[k] = locks[k] /\ cells'[locks[k]] = 1}]

\* WithMaxSpins(max): kl.maxSpins = max, no validation
WithMaxSpins(max) ==
    /\ Fresh
    /\ maxSpins = defaultMaxSpins
    /\ maxSpins' = max
    /\ UNCHANGED <<locks, cells, nalloc, count, pc, key, lock, backoff, spins, held, ops, found, visited, seen>>
    /\ Track

\* A store or delete of key k is recorded for every Range call in progress:
\* Range "may reflect any mapping for that key from any point during the call".
Observe(k, v) ==
    [u \in Threads |->
        IF pc[u] \in RangePcs /\ k \notin visited[u]
        THEN [seen[u] EXCEPT ![k] = @ \cup {v}]
        ELSE seen[u]]

\* Faulty variant of LoadOrStore: a plain Store of the new cell, which
\* replaces the cell an earlier caller stored for the key.
LoadOrStore_Store(t, k) ==
    /\ nalloc[k] < MaxCells
    /\ nalloc' = [nalloc EXCEPT ![k] = @ + 1]
    /\ locks' = [locks EXCEPT ![k] = <<k, nalloc[k] + 1>>]
    /\ lock' = [lock EXCEPT ![t] = <<k, nalloc[k] + 1>>]
    /\ seen' = Observe(k, <<k, nalloc[k] + 1>>)

\* kl.locks.LoadOrStore(key, new(spinLock)): the existing cell, or a new
\* zero cell stored atomically; the result goes to the local variable lock.
LoadOrStore(t, k) ==
    IF locks[k] # NoCell
    THEN /\ lock' = [lock EXCEPT ![t] = locks[k]]
         /\ UNCHANGED <<locks, nalloc, seen>>
    ELSE /\ nalloc[k] < MaxCells
         /\ nalloc' = [nalloc EXCEPT ![k] = @ + 1]
         /\ locks' = [locks EXCEPT ![k] = <<k, nalloc[k] + 1>>]
         /\ lock' = [lock EXCEPT ![t] = <<k, nalloc[k] + 1>>]
         /\ seen' = Observe(k, <<k, nalloc[k] + 1>>)

\* ------------------------------------------------------------------ Lock
\* Lock, line 51-54: LoadOrStore; lock := value; backoff := 1
LockLoadOrStore(t, k) ==
    /\ pc[t] = "idle"
    /\ ops < MaxOps
    /\ LoadOrStore(t, k)
    /\ pc' = [pc EXCEPT ![t] = "LockCAS"]
    /\ key' = [key EXCEPT ![t] = k]
    /\ backoff' = [backoff EXCEPT ![t] = 1]
    /\ spins' = [spins EXCEPT ![t] = 0]
    /\ ops' = ops + 1
    /\ UNCHANGED <<cells, count, maxSpins, held, found, visited>>
    /\ Track

\* Faulty variant of LockCAS: a plain store of 1 in place of the
\* compare-and-swap, so the attempt always "succeeds".
LockCAS_Store(t) ==
    /\ pc[t] = "LockCAS"
    /\ cells' = [cells EXCEPT ![lock[t]] = 1]
    /\ pc' = [pc EXCEPT ![t] = "LockAdd"]
    /\ UNCHANGED <<locks, nalloc, count, maxSpins, key, lock, backoff, spins, held, ops, found, visited, seen>>
    /\ Track

\* Faulty variant of LockCAS: the compare-and-swap is made on the cell of
\* the first key whatever the key is (one lock word shared by all keys).
LockCAS_Shared(t) ==
    /\ pc[t] = "LockCAS"
    /\ LET c == IF locks[1] # NoCell THEN locks[1] ELSE lock[t]
       IN IF cells[c] = 0
          THEN /\ cells' = [cells EXCEPT ![c] = 1]
               /\ lock' = [lock EXCEPT ![t] = c]
               /\ pc' = [pc EXCEPT ![t] = "LockAdd"]
          ELSE /\ pc' = [pc EXCEPT ![t] = "LockYield"]
               /\ UNCHANGED <<cells, lock>>
    /\ UNCHANGED <<locks, nalloc, count, maxSpins, key, backoff, spins, held, ops, found, visited, seen>>
    /\ Track

\* Lock, line 55: one atomic.CompareAndSwapInt32(lock, 0, 1); on success the
\* loop is left, on failure the loop body starts ("for range backoff")
LockCAS(t) ==
    /\ pc[t] = "LockCAS"
    /\ IF cells[lock[t]] = 0
       THEN /\ cells' = [cells EXCEPT ![lock[t]] = 1]
            /\ pc' = [pc EXCEPT ![t] = "LockAdd"]
       ELSE /\ pc' = [pc EXCEPT ![t] = "LockYield"]
            /\ UNCHANGED cells
    /\ UNCHANGED <<locks, nalloc, count, maxSpins, key, lock, backoff, spins, held, ops, found, visited, seen>>
    /\ Track

\* Faulty variant of LockYield: backoff is doubled and then cut down to
\* maxSpins, whatever maxSpins is.
LockYield_Clamp(t) ==
    /\ pc[t] = "LockYield"
    /\ spins' = [spins EXCEPT ![t] = backoff[t]]
    /\ backoff' = [backoff EXCEPT ![t] = IF @ * 2 < maxSpins THEN @ * 2 ELSE maxSpins]
    /\ pc' = [pc EXCEPT ![t] = "LockCAS"]
    /\ UNCHANGED <<shared, key, lock, held, ops, found, visited, seen>>
    /\ Track

\* Lock, line 56-61: the loop body after a failed compare-and-swap: backoff
\* calls of runtime.Gosched() (they touch no shared state; spins records how
\* many were made), then backoff doubles while it is below maxSpins
LockYield(t) ==
    /\ pc[t] = "LockYield"
    /\ spins' = [spins EXCEPT ![t] = backoff[t]]
    /\ backoff' = [backoff EXCEPT ![t] = IF @ < maxSpins THEN @ * 2 ELSE @]
    /\ pc' = [pc EXCEPT ![t] = "LockCAS"]
    /\ UNCHANGED <<shared, key, lock, held, ops, found, visited, seen>>
    /\ Track

\* Faulty variant of LockAdd: Lock returns without counting the lock.
LockAdd_NoCount(t) ==
    /\ pc[t] = "LockAdd"
    /\ held' = [held EXCEPT ![t] = @ \cup {key[t]}]
    /\ pc' = [pc EXCEPT ![t] = "idle"]
    /\ lock' = [lock EXCEPT ![t] = NoCell]
    /\ backoff' = [backoff EXCEPT ![t] = 0]
    /\ spins' = [spins EXCEPT ![t] = 0]
    /\ key' = [key EXCEPT ![t] = NoKey]
    /\ UNCHANGED <<locks, cells, nalloc, count, maxSpins, ops, found, visited, seen>>
    /\ Track

\* Lock, line 63: atomic.AddInt32(&kl.count, 1) and return
LockAdd(t) ==
    /\ pc[t] = "LockAdd"
    /\ count' = count + 1
    /\ held' = [held EXCEPT ![t] = @ \cup {key[t]}]
    /\ pc' = [pc EXCEPT ![t] = "idle"]
    /\ lock' = [lock EXCEPT ![t] = NoCell]
    /\ backoff' = [backoff EXCEPT ![t] = 0]
    /\ spins' = [spins EXCEPT ![t] = 0]
    /\ key' = [key EXCEPT ![t] = NoKey]
    /\ UNCHANGED <<locks, cells, nalloc, maxSpins, ops, found, visited, seen>>
    /\ Track

\* --------------------------------------------------------------- TryLock
\* TryLock, line 40-41
TryLockLoadOrStore(t, k) ==
    /\ pc[t] = "idle"
    /\ ops < MaxOps
    /\ LoadOrStore(t, k)
    /\ pc' = [pc EXCEPT ![t] = "TryLockCAS"]
    /\ key' = [key EXCEPT ![t] = k]
    /\ ops' = ops + 1
    /\ UNCHANGED <<cells, count, maxSpins, backoff, spins, held, found, visited>>
    /\ Track

\* Faulty variant of TryLockCAS: the word is set without being compared.
TryLockCAS_Store(t) ==
    /\ pc[t] = "TryLockCAS"
    /\ cells' = [cells EXCEPT ![lock[t]] = 1]
    /\ pc' = [pc EXCEPT ![t] = "TryLockAdd"]
    /\ UNCHANGED <<locks, nalloc, count, maxSpins, key, lock, backoff, spins, held, ops, found, visited, seen>>
    /\ Track

\* Faulty variant of TryLockCAS: the counter is incremented whether or not
\* the compare-and-swap succeeded.
TryLockCAS_Count(t) ==
    /\ pc[t] = "TryLockCAS"
    /\ IF cells[lock[t]] = 0
       THEN /\ cells' = [cells EXCEPT ![lock[t]] = 1]
            /\ pc' = [pc EXCEPT ![t] = "TryLockAdd"]
            /\ UNCHANGED <<key, lock, count>>
       ELSE /\ pc' = [pc EXCEPT ![t] = "idle"]
            /\ key' = [key EXCEPT ![t] = NoKey]
            /\ lock' = [lock EXCEPT ![t] = NoCell]
            /\ count' = count + 1
            /\ UNCHANGED cells
    /\ UNCHANGED <<locks, nalloc, maxSpins, backoff, spins, held, ops, found, visited, seen>>
    /\ Track

\* TryLock, line 42 and 46: the single CompareAndSwapInt32; return false
\* when it fails
TryLockCAS(t) ==
    /\ pc[t] = "TryLockCAS"
    /\ IF cells[lock[t]] = 0
       THEN /\ cells' = [cells EXCEPT ![lock[t]] = 1]
            /\ pc' = [pc EXCEPT ![t] = "TryLockAdd"]
            /\ UNCHANGED <<key, lock>>
       ELSE /\ pc' = [pc EXCEPT ![t] = "idle"]
            /\ key' = [key EXCEPT ![t] = NoKey]
            /\ lock' = [lock EXCEPT ![t] = NoCell]
            /\ UNCHANGED cells
    /\ UNCHANGED <<locks, nalloc, count, maxSpins, backoff, spins, held, ops, found, visited, seen>>
    /\ Track

\* TryLock, line 43-44: AddInt32(&kl.count, 1); return true
TryLockAdd(t) ==
    /\ pc[t] = "TryLockAdd"
    /\ count' = count + 1
    /\ held' = [held EXCEPT ![t] = @ \cup {key[t]}]
    /\ pc' = [pc EXCEPT ![t] = "idle"]
    /\ lock' = [lock EXCEPT ![t] = NoCell]
    /\ key' = [key EXCEPT ![t] = NoKey]
    /\ UNCHANGED <<locks, cells, nalloc, maxSpins, backoff, spins, ops, found, visited, seen>>
    /\ Track

\* ---------------------------------------------------------------- Unlock
\* Faulty variant of UnlockLoad: the counter is decremented even when the key
\* has no entry.
UnlockLoad_Decrement(t, k) ==
    /\ pc[t] = "idle"
    /\ k \in held[t] \/ ops < MaxOps
    /\ ops' = IF k \in held[t] THEN ops ELSE ops + 1
    /\ held' = [held EXCEPT ![t] = @ \ {k}]
    /\ IF locks[k] # NoCell
       THEN /\ lock' = [lock EXCEPT ![t] = locks[k]]
            /\ key' = [key EXCEPT ![t] = k]
            /\ pc' = [pc EXCEPT ![t] = "UnlockStore"]
            /\ UNCHANGED count
       ELSE /\ count' = count - 1
            /\ UNCHANGED <<lock, key, pc>>
    /\ UNCHANGED <<locks, cells, nalloc, maxSpins, backoff, spins, found, visited, seen>>
    /\ Track

\* Unlock, line 68: kl.locks.Load(key); return at once when there is no
\* entry.  The caller stops regarding the key as held when it calls Unlock.
\* An Unlock of a key the caller holds is not counted in ops.
UnlockLoad(t, k) ==
    /\ pc[t] = "idle"
    /\ k \in held[t] \/ ops < MaxOps
    /\ ops' = IF k \in held[t] THEN ops ELSE ops + 1
    /\ held' = [held EXCEPT ![t] = @ \ {k}]
    /\ IF locks[k] # NoCell
       THEN /\ lock' = [lock EXCEPT ![t] = locks[k]]
            /\ key' = [key EXCEPT ![t] = k]
            /\ pc' = [pc EXCEPT ![t] = "UnlockStore"]
       ELSE UNCHANGED <<lock, key, pc>>
    /\ UNCHANGED <<shared, backoff, spins, found, visited, seen>>
    /\ Track

\* Faulty variant of UnlockStore: the word is not reset.
UnlockStore_Skip(t) ==
    /\ pc[t] = "UnlockStore"
    /\ found' = [found EXCEPT ![t] = cells[lock[t]]]
    /\ pc' = [pc EXCEPT ![t] = "UnlockAdd"]
    /\ UNCHANGED <<locks, cells, nalloc, count, maxSpins, key, lock, backoff, spins, held, ops, visited, seen>>
    /\ Track

\* Unlock, line 70: atomic.StoreInt32(lock, 0), whatever the word held
UnlockStore(t) ==
    /\ pc[t] = "UnlockStore"
    /\ found' = [found EXCEPT ![t] = cells[lock[t]]]
    /\ cells' = [cells EXCEPT ![lock[t]] = 0]
    /\ pc' = [pc EXCEPT ![t] = "UnlockAdd"]
    /\ UNCHANGED <<locks, nalloc, count, maxSpins, key, lock, backoff, spins, held, ops, visited, seen>>
    /\ Track

\* Faulty variant of UnlockAdd: Unlock returns without decrementing count.
UnlockAdd_NoCount(t) ==
    /\ pc[t] = "UnlockAdd"
    /\ pc' = [pc EXCEPT ![t] = "idle"]
    /\ lock' = [lock EXCEPT ![t] = NoCell]
    /\ found' = [found EXCEPT ![t] = -1]
    /\ key' = [key EXCEPT ![t] = NoKey]
    /\ UNCHANGED <<locks, cells, nalloc, count, maxSpins, backoff, spins, held, ops, visited, seen>>
    /\ Track

\* Unlock, line 71: atomic.AddInt32(&kl.count, -1) and return
UnlockAdd(t) ==
    /\ pc[t] = "UnlockAdd"
    /\ count' = count - 1
    /\ pc' = [pc EXCEPT ![t] = "idle"]
    /\ lock' = [lock EXCEPT ![t] = NoCell]
    /\ found' = [found EXCEPT ![t] = -1]
    /\ key' = [key EXCEPT ![t] = NoKey]
    /\ UNCHANGED <<locks, cells, nalloc, maxSpins, backoff, spins, held, ops, visited, seen>>
    /\ Track

\* --------------------------------------------------------------- Cleanup
\* Cleanup, line 83: kl.locks.Range starts
CleanupRange(t) ==
    /\ pc[t] = "idle"
    /\ ops < MaxOps
    /\ pc' = [pc EXCEPT ![t] = "Range"]
    /\ ops' = ops + 1
    /\ visited' = [visited EXCEPT ![t] = {}]
    /\ seen' = [seen EXCEPT ![t] = [k \in Keys |-> {locks[k]}]]
    /\ UNCHANGED <<shared, key, lock, backoff, spins, held, found>>
    /\ Track

\* Range calls the function with a key not yet visited and a value the key
\* was mapped to at some point during the call
CleanupVisit(t, k, v) ==
    /\ pc[t] = "Range"
    /\ k \notin visited[t]
    /\ v \in seen[t][k] \ {NoCell}
    /\ pc' = [pc EXCEPT ![t] = "CleanupLoad"]
    /\ key' = [key EXCEPT ![t] = k]
    /\ lock' = [lock EXCEPT ![t] = v]
    /\ visited' = [visited EXCEPT ![t] = @ \cup {k}]
    /\ seen' = [seen EXCEPT ![t][k] = {}]
    /\ UNCHANGED <<shared, backoff, spins, held, ops, found>>
    /\ Track

\* Faulty variant of CleanupLoad: the test of the word is inverted, so the
\* entries deleted are those whose cell is Locked.
CleanupLoad_Inverted(t) ==
    /\ pc[t] = "CleanupLoad"
    /\ IF cells[lock[t]] # 0
       THEN /\ pc' = [pc EXCEPT ![t] = "CleanupDelete"]
            /\ UNCHANGED <<key, lock>>
       ELSE /\ pc' = [pc EXCEPT ![t] = "Range"]
            /\ key' = [key EXCEPT ![t] = NoKey]
            /\ lock' = [lock EXCEPT ![t] = NoCell]
    /\ UNCHANGED <<shared, backoff, spins, held, ops, found, visited, seen>>
    /\ Track

\* Cleanup, line 84: atomic.LoadInt32(value) == 0
CleanupLoad(t) ==
    /\ pc[t] = "CleanupLoad"
    /\ IF cells[lock[t]] = 0
       THEN /\ pc' = [pc EXCEPT ![t] = "CleanupDelete"]
            /\ UNCHANGED <<key, lock>>
       ELSE /\ pc' = [pc EXCEPT ![t] = "Range"]
            /\ key' = [key EXCEPT ![t] = NoKey]
            /\ lock' = [lock EXCEPT ![t] = NoCell]
    /\ UNCHANGED <<shared, backoff, spins, held, ops, found, visited, seen>>
    /\ Track

\* Cleanup, line 85: kl.locks.Delete(key) removes whatever key maps to now
CleanupDelete(t) ==
    /\ pc[t] = "CleanupDelete"
    /\ locks' = [locks EXCEPT ![key[t]] = NoCell]
    /\ seen' = Observe(key[t], NoCell)
    /\ pc' = [pc EXCEPT ![t] = "Range"]
    /\ key' = [key EXCEPT ![t] = NoKey]
    /\ lock' = [lock EXCEPT ![t] = NoCell]
    /\ UNCHANGED <<cells, nalloc, count, maxSpins, backoff, spins, held, ops, found, visited>>
    /\ Track

\* Faulty variant of CleanupReturn: Range stops before it has visited every
\* entry.
CleanupReturn_Early(t) ==
    /\ pc[t] = "Range"
    /\ pc' = [pc EXCEPT ![t] = "idle"]
    /\ visited' = [visited EXCEPT ![t] = {}]
    /\ seen' = [seen EXCEPT ![t] = [k \in Keys |-> {}]]
    /\ UNCHANGED <<shared, key, lock, backoff, spins, held, ops, found>>
    /\ Track

\* Range returns once every key not visited was absent at some point of the call
CleanupReturn(t) ==
    /\ pc[t] = "Range"
    /\ \A k \in Keys \ visited[t] : NoCell \in seen[t][k]
    /\ pc' = [pc EXCEPT ![t] = "idle"]
    /\ visited' = [visited EXCEPT ![t] = {}]
    /\ seen' = [seen EXCEPT ![t] = [k \in Keys |-> {}]]
    /\ UNCHANGED <<shared, key, lock, backoff, spins, held, ops, found>>
    /\ Track

\* ------------------------------------------------------- specifications
\* Steps inside a call, whoever the caller is
Continue(t) ==
    \/ LockCAS(t)
    \/ LockYield(t)
    \/ LockAdd(t)
    \/ TryLockCAS(t)
    \/ TryLockAdd(t)
    \/ UnlockStore(t)
    \/ UnlockAdd(t)

CleanupSteps(t) ==
    \/ CleanupRange(t)
    \/ \E k \in Keys, v \in Cells : CleanupVisit(t, k, v)
    \/ CleanupLoad(t)
    \/ CleanupDelete(t)
    \/ CleanupReturn(t)

\* Any goroutine may call any method with any key at any time.
Next ==
    \/ \E max \in SpinArgs : WithMaxSpins(max)
    \/ \E t \in Threads, k \in Keys : LockLoadOrStore(t, k)
    \/ \E t \in Threads, k \in Keys : TryLockLoadOrStore(t, k)
    \/ \E t \in Threads, k \in Keys : UnlockLoad(t, k)
    \/ \E t \in Threads : Continue(t)
    \/ \E t \in Threads : CleanupSteps(t)

Spec == Init /\ [][Next]_vars

\* Balanced use: no Cleanup, and Unlock(k) only by a goroutine holding k.
NextBalanced ==
    \/ \E max \in SpinArgs : WithMaxSpins(max)
    \/ \E t \in Threads, k \in Keys : LockLoadOrStore(t, k)
    \/ \E t \in Threads, k \in Keys : TryLockLoadOrStore(t, k)
    \/ \E t \in Threads, k \in Keys : k \in held[t] /\ UnlockLoad(t, k)
    \/ \E t \in Threads : Continue(t)

SpecBalanced == Init /\ [][NextBalanced]_vars

\* Non-nested balanced pairs (as in TestKeyLockConcurrentAccess): a goroutine
\* acquires a key only while it holds none, and then unlocks it.  Every
\* goroutine that can take a step eventually takes one (the Go scheduler runs
\* every runnable goroutine; Lock yields with Gosched while it waits).
ThreadPairs(t) ==
    \/ \E k \in Keys : held[t] = {} /\ LockLoadOrStore(t, k)
    \/ \E k \in Keys : held[t] = {} /\ TryLockLoadOrStore(t, k)
    \/ \E k \in Keys : k \in held[t] /\ UnlockLoad(t, k)
    \/ Continue(t)

NextPairs ==
    \/ \E max \in SpinArgs : WithMaxSpins(max)
    \/ \E t \in Threads : ThreadPairs(t)

SpecLive ==
    /\ Init
    /\ [][NextPairs]_vars
    /\ \A t \in Threads : WF_vars(ThreadPairs(t))

\* Use without Cleanup: any goroutine may call Lock, TryLock and Unlock with
\* any key at any time, Unlock of keys it does not hold included.
NextNoCleanup ==
    \/ \E max \in SpinArgs : WithMaxSpins(max)
    \/ \E t \in Threads, k \in Keys : LockLoadOrStore(t, k)
    \/ \E t \in Threads, k \in Keys : TryLockLoadOrStore(t, k)
    \/ \E t \in Threads, k \in Keys : UnlockLoad(t, k)
    \/ \E t \in Threads : Continue(t)

SpecNoCleanup == Init /\ [][NextNoCleanup]_vars

\* Sequential use: a call starts only when no call is in progress, so no two
\* operations overlap (Cleanup included, Unlock of any key allowed).
AllIdle == \A t \in Threads : pc[t] = "idle"

NextSeq ==
    \/ \E max \in SpinArgs : WithMaxSpins(max)
    \/ \E t \in Threads, k \in Keys : AllIdle /\ LockLoadOrStore(t, k)
    \/ \E t \in Threads, k \in Keys : AllIdle /\ TryLockLoadOrStore(t, k)
    \/ \E t \in Threads, k \in Keys : AllIdle /\ UnlockLoad(t, k)
    \/ \E t \in Threads : Continue(t)
    \/ \E t \in Threads : AllIdle /\ CleanupRange(t)
    \/ \E t \in Threads, k \in Keys, v \in Cells : CleanupVisit(t, k, v)
    \/ \E t \in Threads : CleanupLoad(t)
    \/ \E t \in Threads : CleanupDelete(t)
    \/ \E t \in Threads : CleanupReturn(t)

SpecSeq == Init /\ [][NextSeq]_vars

\* Balanced use with Cleanup: Unlock(k) only by a goroutine holding k, while
\* any goroutine may call Cleanup at any time.
NextBalancedCleanup ==
    \/ \E max \in SpinArgs : WithMaxSpins(max)
    \/ \E t \in Threads, k \in Keys : LockLoadOrStore(t, k)
    \/ \E t \in Threads, k \in Keys : TryLockLoadOrStore(t, k)
    \/ \E t \in Threads, k \in Keys : k \in held[t] /\ UnlockLoad(t, k)
    \/ \E t \in Threads : Continue(t)
    \/ \E t \in Threads : CleanupSteps(t)

SpecBalancedCleanup == Init /\ [][NextBalancedCleanup]_vars

\* The budget of calls is a bound of the model, not of the program: a
\* caller that has used it up may go on with a new one.
Refill ==
    /\ ops = MaxOps
    /\ ops' = 0
    /\ UNCHANGED <<shared, pc, key, lock, backoff, spins, held, found, visited, seen>>
    /\ Track

\* Round trips: goroutine t works on key t alone (no other goroutine ever
\* touches it), calling TryLock when it does not hold the key and Unlock
\* when it does, any number of times.
NextRoundTrip ==
    \/ \E max \in SpinArgs : WithMaxSpins(max)
    \/ \E t \in Threads, k \in Keys :
          k = t /\ held[t] = {} /\ TryLockLoadOrStore(t, k)
    \/ \E t \in Threads, k \in Keys :
          k = t /\ k \in held[t] /\ UnlockLoad(t, k)
    \/ \E t \in Threads : TryLockCAS(t)
    \/ \E t \in Threads : TryLockAdd(t)
    \/ \E t \in Threads : UnlockStore(t)
    \/ \E t \in Threads : UnlockAdd(t)
    \/ Refill

SpecRoundTrip == Init /\ [][NextRoundTrip]_vars

\* Contention on one key under an adversarial but fair scheduler.  Every
\* goroutine repeats Lock(ContestedKey)/Unlock(ContestedKey) for ever.  The
\* scheduler lets the goroutine Waiter make its compare-and-swap only at
\* moments when the cell is Locked; it runs Waiter again and again (strong
\* fairness of Waiter's steps as scheduled) and never leaves any other
\* goroutine, or the caller's next batch of calls, waiting for ever (weak
\* fairness).  Each behaviour is one of the unrestricted program in which
\* every goroutine that can take a step eventually takes one.
Waiter == CHOOSE t \in Threads : \A u \in Threads : t <= u

ContestedKey == CHOOSE k \in Keys : \A j \in Keys : k <= j

StarveStep(t) ==
    \/ held[t] = {} /\ LockLoadOrStore(t, ContestedKey)
    \/ /\ pc[t] = "LockCAS"
       /\ t = Waiter => cells[lock[t]] = 1
       /\ LockCAS(t)
    \/ LockYield(t)
    \/ LockAdd(t)
    \/ ContestedKey \in held[t] /\ UnlockLoad(t, ContestedKey)
    \/ UnlockStore(t)
    \/ UnlockAdd(t)

NextStarve ==
    \/ \E max \in SpinArgs : WithMaxSpins(max)
    \/ \E t \in Threads : StarveStep(t)
    \/ Refill

SpecStarve ==
    /\ Init
    /\ [][NextStarve]_vars
    /\ SF_vars(StarveStep(Waiter))
    /\ \A t \in Threads \ {Waiter} : WF_vars(StarveStep(t))
    /\ WF_vars(Refill)

\* Race of Cleanup with the users of one key: every goroutine may call
\* Lock and TryLock on ContestedKey, Unlock on it when it holds it, and
\* Cleanup, at any time.
NextRace ==
    \/ \E max \in SpinArgs : WithMaxSpins(max)
    \/ \E t \in Threads : LockLoadOrStore(t, ContestedKey)
    \/ \E t \in Threads : TryLockLoadOrStore(t, ContestedKey)
    \/ \E t \in Threads :
          ContestedKey \in held[t] /\ UnlockLoad(t, ContestedKey)
    \/ \E t \in Threads : Continue(t)
    \/ \E t \in Threads : CleanupSteps(t)

SpecRace == Init /\ [][NextRace]_vars

\* ------------------------------------------------------------ properties
\* Goroutine t owns key k: its compare-and-swap on k's cell has succeeded and
\* it has not yet called Unlock(k).
Owns(t, k) ==
    \/ k \in held[t]
    \/ pc[t] \in {"LockAdd", "TryLockAdd"} /\ key[t] = k

Owners(k) == {t \in Threads : Owns(t, k)}

LockedKeys == {k \in Keys : locks[k] # NoCell /\ cells[locks[k]] = 1}

Quiescent == \A t \in Threads : pc[t] = "idle" /\ held[t] = {}

\* C1: under balanced use without Cleanup, at most one goroutine at a time is
\* between a successful Lock(k)/TryLock(k) and its Unlock(k), for every key k.
MutualExclusion == \A k \in Keys : Cardinality(Owners(k)) <= 1

\* A goroutine holds k while another has failed a compare-and-swap in Lock(k).
MutualExclusionWitness ==
    \E t, u \in Threads :
        /\ t # u
        /\ held[t] # {}
        /\ pc[u] = "LockYield"
        /\ key[u] \in held[t]

\* C2: while a goroutine holds k, the compare-and-swap of every TryLock(k),
\* its own included, fails (TryLock returns false), and the compare-and-swap
\* of a Lock(k) of another goroutine does not succeed (Lock does not return).
NoAcquireWhileHeld ==
    [][\A t \in Threads :
         /\ (/\ pc[t] = "TryLockCAS"
             /\ pc'[t] # "TryLockCAS"
             /\ \E a \in Threads : key[t] \in held[a])
            => (pc'[t] = "idle" /\ cells' = cells /\ held' = held)
         /\ (/\ pc[t] = "LockCAS"
             /\ \E a \in Threads \ {t} : key[t] \in held[a])
            => pc'[t] # "LockAdd"]_vars

\* The holder of k is itself at the compare-and-swap of TryLock(k) while
\* another goroutine has already failed a compare-and-swap in Lock(k).
NoAcquireWhileHeldWitness ==
    \E a, u \in Threads :
        /\ a # u
        /\ pc[a] = "TryLockCAS"
        /\ key[a] \in held[a]
        /\ pc[u] = "LockYield"
        /\ key[u] = key[a]

\* C3: under balanced use without Cleanup, count = (cells Locked) - (goroutines
\* that won the compare-and-swap and have not yet added 1) + (goroutines that
\* stored Unlocked and have not yet added -1); so Size() is the number of
\* Locked cells whenever no call is in progress.
CounterAccounting ==
    /\ count = Cardinality(LockedKeys)
                 - Cardinality({t \in Threads : pc[t] \in {"LockAdd", "TryLockAdd"}})
                 + Cardinality({t \in Threads : pc[t] = "UnlockAdd"})
    /\ (\A t \in Threads : pc[t] = "idle") => Size = Cardinality(LockedKeys)

\* One goroutine has stored Unlocked and not yet decremented while another has
\* already won the compare-and-swap on the same key and not yet incremented.
CounterAccountingWitness ==
    \E t, u \in Threads :
        /\ pc[t] = "UnlockAdd"
        /\ pc[u] \in {"LockAdd", "TryLockAdd"}
        /\ key[u] = key[t]

\* C4: under balanced use without Cleanup, once every goroutine has completed
\* its pairs (no call in progress, nothing held), Size() = 0 and every cell is
\* Unlocked.
BalancedReturnsToZero ==
    Quiescent => (Size = 0 /\ \A c \in Cells : cells[c] = 0)

\* All calls have been made, every key has been locked, and all is released.
BalancedReturnsToZeroWitness ==
    /\ Quiescent
    /\ ops = MaxOps
    /\ \A k \in Keys : locks[k] # NoCell

\* C5: Size() >= 0 in every reachable state, whatever the calls.
CountNeverNegative == Size >= 0

\* C6: the AddInt32(-1) of an Unlock whose StoreInt32 found the cell already
\* Unlocked leaves count unchanged.
UnlockDecrementsOnlyLocked ==
    [][\A t \in Threads :
         (pc[t] = "UnlockAdd" /\ found[t] = 0 /\ pc'[t] = "idle")
            => count' = count]_vars

\* C7: with non-nested balanced pairs, finitely many calls and fair
\* scheduling, every goroutine finishes: from some point on no call is in
\* progress, nothing is held and all calls have been made.  A Lock call in
\* progress keeps its goroutine away from "idle", so this says in particular
\* that every Lock call returns.
LockEventuallyReturns == <>[](Quiescent /\ ops = MaxOps)

\* A Lock that had to wait (it yielded at least once) has won its
\* compare-and-swap.
LockEventuallyReturnsWitness ==
    \E t \in Threads : pc[t] = "LockAdd" /\ spins[t] > 0

\* C8: a compare-and-swap of Lock(b)/TryLock(b) made while b has no entry or
\* b's cell is Unlocked succeeds, whatever the state of the other keys.
DistinctKeysDoNotBlock ==
    [][\A t \in Threads :
         (/\ pc[t] \in {"LockCAS", "TryLockCAS"}
          /\ pc'[t] # pc[t]
          /\ (locks[key[t]] = NoCell \/ cells[locks[key[t]]] = 0))
            => pc'[t] \in {"LockAdd", "TryLockAdd"}]_vars

\* Every goroutine holds a key of its own at the same time.
DistinctKeysDoNotBlockWitness ==
    \E f \in [Threads -> Keys] :
        /\ \A t, u \in Threads : t # u => f[t] # f[u]
        /\ \A t \in Threads : f[t] \in held[t]

\* C9: without Cleanup, at most one cell is ever stored for a key, every call
\* in progress on key k has that cell in hand, at most one goroutine wins the
\* key, and a TryLock(k) fails only if another call has won k and not yet
\* released it: of N concurrent TryLock(k) on a fresh key exactly one returns
\* true.
CallPcs == {"LockCAS", "LockYield", "LockAdd", "TryLockCAS", "TryLockAdd",
            "UnlockStore", "UnlockAdd"}

SingleCell ==
    /\ \A k \in Keys : nalloc[k] <= 1
    /\ \A t \in Threads :
         pc[t] \in CallPcs => (lock[t] # NoCell /\ lock[t] = locks[key[t]])
    /\ \A k \in Keys :
         Cardinality({t \in Threads : pc[t] = "TryLockAdd" /\ key[t] = k}) <= 1

GetOrCreateRaceFree ==
    /\ []SingleCell
    /\ [][\A t \in Threads :
            (pc[t] = "TryLockCAS" /\ pc'[t] = "idle")
               => \E u \in Threads :
                    \/ Owns(u, key[t])
                    \/ pc[u] = "UnlockStore" /\ key[u] = key[t]]_vars

\* Two TryLock calls on the same key are in progress, the key had no entry
\* before them, one has won and the other is about to compare-and-swap.
GetOrCreateRaceFreeWitness ==
    \E t, u \in Threads :
        /\ t # u
        /\ pc[t] = "TryLockAdd"
        /\ pc[u] = "TryLockCAS"
        /\ key[u] = key[t]
        /\ lock[u] = lock[t]
        /\ \A a \in Threads : held[a] = {}
        /\ count = 0

\* C10: Cleanup's Delete never removes an entry whose cell is Locked, nor one
\* whose cell a Lock/TryLock in progress has in hand.
CleanupNeverDeletesInUse ==
    [][\A t \in Threads :
         (pc[t] = "CleanupDelete" /\ pc'[t] = "Range" /\ locks[key[t]] # NoCell)
            => /\ cells[locks[key[t]]] = 0
               /\ ~ \E u \in Threads :
                      /\ pc[u] \in {"LockCAS", "LockYield", "TryLockCAS"}
                      /\ lock[u] = locks[key[t]]]_vars

\* C11: while a Cleanup call runs with no other operation overlapping it,
\* no step changes the counter or any cell, an entry only ever changes by
\* being removed and then its cell is Unlocked, and when the call returns
\* every entry that remains has a Locked cell: the call removed exactly the
\* Unlocked entries and kept the Locked ones.
CleanupAloneEffect ==
    [][(\E t \in Threads : pc[t] \in RangePcs) =>
        /\ count' = count
        /\ cells' = cells
        /\ \A k \in Keys : locks'[k] # locks[k] =>
                /\ locks'[k] = NoCell
                /\ cells[locks[k]] = 0
        /\ \A t \in Threads : pc[t] = "Range" /\ pc'[t] = "idle" =>
                \A k \in Keys : locks[k] # NoCell => cells[locks[k]] = 1]_vars

\* A Cleanup call running alone has visited every key, removed the entry of
\* one (Unlocked) and kept the entry of another (Locked).
CleanupAloneEffectWitness ==
    \E t \in Threads, k, j \in Keys :
        /\ pc[t] = "Range"
        /\ visited[t] = Keys
        /\ \A u \in Threads \ {t} : pc[u] = "idle"
        /\ nalloc[k] > 0 /\ locks[k] = NoCell
        /\ locks[j] # NoCell /\ cells[locks[j]] = 1

\* C12: an Unlock of a key that has no entry returns at once (it is the one
\* call that leaves every goroutine where it was) and changes neither the
\* map, nor any cell, nor the counter; and as long as no key has ever
\* been given an entry, no Unlock gets past its lookup and Size() is 0.
UnlockAbsentIsNoOp ==
    /\ []((\A k \in Keys : nalloc[k] = 0) =>
            /\ Size = 0
            /\ \A t \in Threads : pc[t] = "idle")
    /\ [][ops' # ops /\ pc' = pc =>
            UNCHANGED <<locks, cells, nalloc, count>>]_vars

\* Every call of the budget was an Unlock of a key that was never locked.
UnlockAbsentIsNoOpWitness ==
    /\ ops = MaxOps
    /\ AllIdle
    /\ \A k \in Keys : nalloc[k] = 0 /\ locks[k] = NoCell
    /\ Size = 0

\* C13: a TryLock call makes one compare-and-swap and returns.  The call
\* reaches the compare-and-swap only from its start, which changes neither
\* the counter nor a cell; a failed compare-and-swap returns (false) with
\* the counter, every cell and the caller's held keys unchanged; a
\* successful one takes the caller's cell from Unlocked to Locked, and the
\* step after it adds exactly 1 to the counter and returns (true).
TryLockSingleAttempt ==
    [][\A t \in Threads :
        /\ pc'[t] = "TryLockCAS" /\ pc[t] # "TryLockCAS" =>
              pc[t] = "idle" /\ count' = count /\ cells' = cells
        /\ pc[t] = "TryLockCAS" /\ pc'[t] # "TryLockCAS" =>
              /\ count' = count
              /\ held'[t] = held[t]
              /\ IF cells[lock[t]] = 0
                 THEN /\ pc'[t] = "TryLockAdd"
                      /\ cells' = [cells EXCEPT ![lock[t]] = 1]
                 ELSE /\ pc'[t] = "idle"
                      /\ cells' = cells
        /\ pc[t] = "TryLockAdd" /\ pc'[t] # "TryLockAdd" =>
              /\ pc'[t] = "idle"
              /\ count' = count + 1
              /\ cells' = cells
              /\ held'[t] = held[t] \cup {key[t]}]_vars

\* One TryLock has won its compare-and-swap (and is about to return true)
\* while another one, on the same cell, is about to fail its own.
TryLockSingleAttemptWitness ==
    \E t, u \in Threads :
        /\ pc[t] = "TryLockAdd"
        /\ pc[u] = "TryLockCAS"
        /\ lock[u] = lock[t]
        /\ cells[lock[t]] = 1
        /\ count = 0

\* C14: when a goroutine that alone works on a key alternates TryLock and
\* Unlock on it, every TryLock finds the key's registered cell Unlocked at
\* its compare-and-swap, so it returns true, however many round trips came
\* before; and Size() counts exactly the goroutines whose TryLock returned
\* true and whose Unlock has not finished (1 after a lone goroutine's
\* TryLock).
RoundTripAcquiresAgain ==
    /\ \A t \in Threads : pc[t] = "TryLockCAS" =>
            /\ lock[t] = locks[key[t]]
            /\ cells[lock[t]] = 0
    /\ Size = Cardinality({t \in Threads :
                  held[t] # {} \/ pc[t] \in {"UnlockStore", "UnlockAdd"}})

\* A goroutine has made every call of the budget on its key, the last one
\* being a TryLock that returned true after complete round trips, and no
\* other goroutine has done anything: Size() is 1.
RoundTripAcquiresAgainWitness ==
    \E t \in Threads :
        /\ pc[t] = "idle"
        /\ held[t] # {}
        /\ ops = MaxOps
        /\ \A k \in Keys : (nalloc[k] > 0) = (k \in held[t])
        /\ Size = 1

\* Cells created for key k that are Locked but are not (or no longer) the
\* entry of k
EvictedLocked(k) ==
    {c \in Cells : c[1] = k /\ c # locks[k] /\ cells[c] = 1}

\* C15: under balanced use with concurrent Cleanup, two goroutines hold the
\* lock of the same key at once only when Cleanup has evicted a cell of the
\* key that is still Locked (and a second cell was created for the key); and
\* such a state is reachable (the witness).
DoubleHoldOnlyByEviction ==
    \A k \in Keys : Cardinality(Owners(k)) >= 2 =>
        /\ nalloc[k] >= 2
        /\ EvictedLocked(k) # {}

\* Two goroutines hold key k: the cell one of them acquired has been evicted
\* by Cleanup and is still Locked, the other acquired the cell created for k
\* after the eviction, which is the entry of k now.
DoubleHoldOnlyByEvictionWitness ==
    \E k \in Keys, t, u \in Threads :
        /\ t # u
        /\ k \in held[t] /\ k \in held[u]
        /\ pc[t] = "idle" /\ pc[u] = "idle"
        /\ locks[k] # NoCell /\ cells[locks[k]] = 1
        /\ EvictedLocked(k) # {}

\* C16: under balanced use with Cleanup called concurrently, once every
\* goroutine has completed (no call in progress, nothing held) Size() is 0
\* and no cell, registered or evicted, is Locked.
BalancedUnderCleanup ==
    Quiescent => /\ Size = 0
                 /\ \A c \in Cells : cells[c] = 0

\* C17: a key whose entry is one and the same Locked cell from the start of
\* a goroutine's Cleanup call on (pinned) is never the key that call
\* deletes; and as long as that is so, also after the call has returned, an
\* Unlock of the key finds that cell, its store finds the cell Locked and
\* sets it Unlocked, and the Unlock ends by decrementing the counter.
CleanupKeepsLockedEntry ==
    [][\A t \in Threads :
        /\ pc[t] = "CleanupDelete" /\ pc'[t] # "CleanupDelete" =>
              key[t] \notin pinned[t]
        /\ \A k \in pinned[t] : \A u \in Threads :
              /\ pc[u] = "idle" /\ held'[u] # held[u] /\ k \in held[u] =>
                    \/ k \in held'[u]
                    \/ /\ pc'[u] = "UnlockStore"
                       /\ lock'[u] = locks[k]
              /\ pc[u] = "UnlockStore" /\ pc'[u] # "UnlockStore"
                    /\ lock[u] = locks[k] =>
                    /\ found'[u] = 1
                    /\ cells'[locks[k]] = 0
                    /\ pc'[u] = "UnlockAdd"
        /\ pc[t] = "UnlockAdd" /\ pc'[t] # "UnlockAdd" /\ found[t] = 1 =>
              count' = count - 1]_vars

\* A Cleanup call has returned and has left in place the entry of a key that
\* was Locked all along; the holder's later Unlock has found that cell.
CleanupKeepsLockedEntryWitness ==
    \E t, u \in Threads, k \in Keys :
        /\ t # u
        /\ pc[t] = "idle"
        /\ k \in pinned[t]
        /\ pc[u] = "UnlockStore"
        /\ key[u] = k
        /\ lock[u] = locks[k]

\* C18: for every positive maxSpins, the number of yields a Lock call makes
\* between two compare-and-swap attempts is at least 1 and at most maxSpins.
BackoffWithinCeiling ==
    maxSpins > 0 =>
        \A t \in Threads :
            /\ spins[t] <= maxSpins
            /\ pc[t] = "LockCAS" /\ spins[t] = 0 => backoff[t] = 1

\* C19: with maxSpins <= 0, backoff stays 1 throughout a Lock call, every
\* failed compare-and-swap is followed by exactly one yield (never none)
\* before the next attempt, and under fair scheduling of non-nested balanced
\* pairs every Lock call still acquires and returns: eventually no call is
\* in progress any more.
NonPositiveMaxSpinsYields ==
    /\ [](maxSpins <= 0 =>
            \A t \in Threads : pc[t] \in {"LockCAS", "LockYield"} =>
                backoff[t] = 1)
    /\ [][maxSpins <= 0 =>
            \A t \in Threads : pc[t] = "LockYield" /\ pc'[t] # "LockYield" =>
                /\ spins'[t] >= 1
                /\ pc'[t] = "LockCAS"]_vars
    /\ <>[](maxSpins <= 0 => AllIdle)

\* With maxSpins <= 0 a Lock call has failed a compare-and-swap, yielded
\* once, and has now won the compare-and-swap.
NonPositiveMaxSpinsYieldsWitness ==
    \E t \in Threads :
        /\ maxSpins <= 0
        /\ pc[t] = "LockAdd"
        /\ spins[t] = 1
        /\ backoff[t] = 1

====
